---- MODULE Spec2Model ----
(***************************************************************************)
(* A model of sqlitestore: a key-value blob store (Get, Put, Delete, Has,  *)
(* List, Len, Close) kept in one SQLite table per keyspace, behind one     *)
(* read/write lock per database handle.                                    *)
(*                                                                         *)
(* Byte strings (keys, values, hex text, table names) are sequences of     *)
(* byte values 0..255.  An error is the sequence of the parts of its       *)
(* message, the empty sequence being nil.                                  *)
(***************************************************************************)
EXTENDS Integers, Sequences, FiniteSets, TLC

\* Longest value a caller stores.
MaxValLen == 1

\* Most keys a caller passes to one Has call.
MaxHasKeys == 2

\* The callers that run at the same time.
NumCallers == 2

\* Longest key of the keyspace whose keys are encoded and listed.
MaxKeyLen == 2

\* Most keys that keyspace holds at a time.
MaxStored == 4

\* Options.PoolSize: the connections of the pool.
PoolSize == 1

\* The bytes values are made of.
ValBytes == {97}

\* The keys callers use: 0x09 and 0xa0, whose hex codes differ in the class
\* of both digits ("09", "a0").
Keys == {<<9>>, <<160>>}

\* What List is started from: every key, the empty key, a key between the
\* two and a key after both.
Starts == Keys \cup {<<>>, <<9, 0>>, <<161>>}

\* The keyspace prefixes callers ask for.
Paths == {<<65>>, <<66>>}

VARIABLES
    compress,   \* sqlDB.compress
    closed,     \* whether sql.DB.Close has run on sqlDB.db
    db,         \* the database file: its tables and their rows
    kvs,        \* the KV handles handed out, each with the keyspace asked for
    hist,       \* per keyspace asked for, the value of the last successful
                \* Put of each key that no successful Delete followed
    last,       \* the call that returned last: its name and its error
    txmu,       \* sqlDB.txmu: the caller holding it exclusively (0: none) and
                \* the callers holding it shared
    submu,      \* the txmu of a dbMonitor made by dbMonitor.Sub, likewise
    wtx,        \* the caller whose transaction holds the engine's write lock
                \* (0: none)
    pc,         \* where each caller is in its call
    call,       \* the call each caller is in
    tx,         \* what each caller's unit of work produced, until it returns
    rets        \* what each caller's calls returned, oldest first

storeVars == <<compress, closed, db, kvs, hist, last>>

callVars == <<txmu, submu, wtx, pc, call, tx, rets>>

vars == <<compress, closed, db, kvs, hist, last, txmu, submu, wtx, pc, call, tx, rets>>

Callers == 1..NumCallers

----------------------------------------------------------------------------
\* Byte strings

RECURSIVE SeqsUpTo(_, _)
SeqsUpTo(S, n) ==
    IF n = 0 THEN {<<>>}
    ELSE LET P == SeqsUpTo(S, n - 1)
         IN  P \cup {Append(s, b) : s \in {x \in P : Len(x) = n - 1}, b \in S}

Values == SeqsUpTo(ValBytes, MaxValLen)

HasArgs == SeqsUpTo(Keys, MaxHasKeys)

\* memcmp order, shorter first on a tie: SQLite's BINARY collation, which
\* `key >= $start order by key` uses, and Go's string order.
RECURSIVE Less(_, _)
Less(a, b) ==
    IF b = <<>> THEN FALSE
    ELSE IF a = <<>> THEN TRUE
    ELSE IF Head(a) # Head(b) THEN Head(a) < Head(b)
    ELSE Less(Tail(a), Tail(b))

Leq(a, b) == a = b \/ Less(a, b)

\* The elements of a finite set of byte strings in ascending order.
RECURSIVE SortAsc(_)
SortAsc(S) ==
    IF S = {} THEN <<>>
    ELSE LET m == CHOOSE x \in S : \A y \in S : Leq(x, y)
         IN  <<m>> \o SortAsc(S \ {m})

Range(s) == {s[i] : i \in 1..Len(s)}

----------------------------------------------------------------------------
\* Errors

Nil == <<>>

KeyNotFound == <<"blob: key not found">>

KeyExists == <<"blob: key exists">>

ErrDBClosed == <<"sql: database is closed">>

ErrCorrupt == <<"snappy: corrupt input">>

Wrap(what, err) == <<what>> \o err

\* A join that keeps the first failure only; C10_CloseJoinsAll tells it from
\* errors.Join.
JoinFirst(errs) ==
    IF \E i \in 1..Len(errs) : errs[i] # Nil
    THEN errs[CHOOSE i \in 1..Len(errs) :
                  errs[i] # Nil /\ \A j \in 1..(i - 1) : errs[j] = Nil]
    ELSE Nil

\* errors.Join: nil when every error is nil, else the non-nil ones in order,
\* their messages on separate lines.
RECURSIVE Join(_)
Join(errs) ==
    IF errs = <<>> THEN Nil
    ELSE LET rest == Join(Tail(errs))
         IN  IF Head(errs) = Nil THEN rest
             ELSE IF rest = Nil THEN Head(errs)
             ELSE Head(errs) \o <<"\n">> \o rest

----------------------------------------------------------------------------
\* Key encoding

hexdigit(n) == IF n < 10 THEN 48 + n ELSE 87 + n

\* An encoding without the leading zero of a byte below 16, as "%x" gives
\* it; C24_KeyCodec tells it from encodeKey.
RECURSIVE encodeKeyUnpadded(_)
encodeKeyUnpadded(key) ==
    IF key = <<>> THEN <<>>
    ELSE (IF Head(key) < 16 THEN <<hexdigit(Head(key))>>
          ELSE <<hexdigit(Head(key) \div 16), hexdigit(Head(key) % 16)>>)
             \o encodeKeyUnpadded(Tail(key))

RECURSIVE encodeKey(_)
encodeKey(key) ==
    IF key = <<>> THEN <<>>
    ELSE <<hexdigit(Head(key) \div 16), hexdigit(Head(key) % 16)>>
             \o encodeKey(Tail(key))

fromHexChar(c) ==
    IF c >= 48 /\ c <= 57 THEN c - 48
    ELSE IF c >= 97 /\ c <= 102 THEN c - 87
    ELSE IF c >= 65 /\ c <= 70 THEN c - 55
    ELSE -1

RECURSIVE hexDecode(_)
hexDecode(src) ==
    IF src = <<>> THEN [ok |-> TRUE, out |-> <<>>]
    ELSE IF Len(src) = 1 THEN [ok |-> FALSE, out |-> <<>>]
    ELSE LET a == fromHexChar(src[1])
             b == fromHexChar(src[2])
             r == hexDecode(SubSeq(src, 3, Len(src)))
         IN  IF a < 0 \/ b < 0 THEN [ok |-> FALSE, out |-> <<>>]
             ELSE [ok |-> r.ok, out |-> <<a * 16 + b>> \o r.out]

\* ok is FALSE where the code panics with "invalid key".
decodeKey(ekey) == hexDecode(ekey)

----------------------------------------------------------------------------
\* Value encoding

\* snappy.Encode of a source shorter than 17 bytes: the length as a uvarint,
\* then the whole source as one literal element.
snappyEncode(src) ==
    IF src = <<>> THEN <<0>>
    ELSE <<Len(src), (Len(src) - 1) * 4>> \o src

Corrupt == [ok |-> FALSE, out |-> <<>>]

RECURSIVE littleEndian(_)
littleEndian(bs) ==
    IF bs = <<>> THEN 0 ELSE Head(bs) + 256 * littleEndian(Tail(bs))

\* binary.Uvarint: n is the number of bytes read, 0 when there is no number.
RECURSIVE uvarint(_)
uvarint(src) ==
    IF src = <<>> THEN [n |-> 0, v |-> 0]
    ELSE IF Head(src) < 128 THEN [n |-> 1, v |-> Head(src)]
    ELSE LET r == uvarint(Tail(src))
         IN  IF r.n = 0 THEN r
             ELSE [n |-> r.n + 1, v |-> (Head(src) - 128) + 128 * r.v]

RECURSIVE copyBytes(_, _, _)
copyBytes(out, offset, n) ==
    IF n = 0 THEN out
    ELSE copyBytes(Append(out, out[Len(out) + 1 - offset]), offset, n - 1)

\* The element loop of snappy's decoder: literals and copies, until the
\* source ends; the output must then have exactly dLen bytes.
RECURSIVE snappyElements(_, _, _)
snappyElements(src, out, dLen) ==
    IF src = <<>>
    THEN IF Len(out) = dLen THEN [ok |-> TRUE, out |-> out] ELSE Corrupt
    ELSE LET tag   == src[1]
             x     == tag \div 4
             kind  == tag % 4
             extra == IF kind = 0 THEN (IF x < 60 THEN 0 ELSE x - 59)
                      ELSE IF kind = 1 THEN 1
                      ELSE IF kind = 2 THEN 2
                      ELSE 4
         IN  IF Len(src) < 1 + extra THEN Corrupt
             ELSE LET hdr  == SubSeq(src, 2, 1 + extra)
                      body == SubSeq(src, 2 + extra, Len(src))
                      room == dLen - Len(out)
                  IN  IF kind = 0
                      THEN LET n == (IF x < 60 THEN x ELSE littleEndian(hdr)) + 1
                           IN  IF n > room \/ n > Len(body) THEN Corrupt
                               ELSE snappyElements(SubSeq(body, n + 1, Len(body)),
                                                   out \o SubSeq(body, 1, n), dLen)
                      ELSE LET n      == IF kind = 1 THEN 4 + (x % 8) ELSE 1 + x
                               offset == IF kind = 1
                                         THEN (tag \div 32) * 256 + hdr[1]
                                         ELSE littleEndian(hdr)
                           IN  IF offset <= 0 \/ Len(out) < offset \/ n > room
                               THEN Corrupt
                               ELSE snappyElements(body, copyBytes(out, offset, n), dLen)

snappyDecode(src) ==
    LET l == uvarint(src)
    IN  IF l.n = 0 THEN Corrupt
        ELSE snappyElements(SubSeq(src, l.n + 1, Len(src)), <<>>, l.v)

\* An encoding that stores the value as it is, whatever the configuration;
\* C25_CompressFixed tells it from encodeBlob.
encodeBlobPlain(data) == data

encodeBlob(data) == IF compress THEN snappyEncode(data) ELSE data

\* A decoding that hands the stored bytes back as they are, whatever the
\* configuration; C1_RoundTrip tells it from decodeBlob.
decodeBlobStored(data) == [val |-> data, err |-> Nil]

decodeBlob(data) ==
    IF compress
    THEN LET r == snappyDecode(data)
         IN  IF r.ok THEN [val |-> r.out, err |-> Nil]
             ELSE [val |-> <<>>, err |-> ErrCorrupt]
    ELSE [val |-> data, err |-> Nil]

----------------------------------------------------------------------------
\* The SQLite engine: a database is its set of tables and its set of rows,
\* each row carrying its table's name.  A statement returns a result code
\* (0 is SQLITE_OK) and the database as the statement leaves it.

\* The literal the code compares a failed statement's code with.
\* SQLITE_CONSTRAINT_UNIQUE, the code of a failed unique constraint that is
\* not the primary key; C2_Existence tells it from the code Put looks for.
constraintUnique == 19 + 8 * 256

sqliteConstraintUnique == 1555

\* SQLITE_CONSTRAINT_PRIMARYKEY, SQLITE_CONSTRAINT | (6 << 8): what an insert
\* of an existing key into a table declared `key BLOB primary key` fails with.
constraintPrimaryKey == 19 + 6 * 256

\* SQLITE_ERROR: a statement on a table that does not exist.
noSuchTable == 1

sqliteError(code) == <<"sqlite", ToString(code)>>

rowsOf(d, tab) == {r \in d.rows : r.tab = tab}

\* A create that makes the table anew, empty, when it is there already;
\* C21_CreateOnce tells it from execCreate.
execCreateAnew(d, tab) ==
    [code |-> 0,
     db |-> [d EXCEPT !.tables = @ \cup {tab}, !.rows = {r \in @ : r.tab # tab}]]

\* create table if not exists
execCreate(d, tab) ==
    [code |-> 0, db |-> [d EXCEPT !.tables = @ \cup {tab}]]

\* insert into tab (key, value, vsize)
execInsert(d, tab, key, value, vsize) ==
    IF tab \notin d.tables THEN [code |-> noSuchTable, db |-> d]
    ELSE IF \E r \in rowsOf(d, tab) : r.key = key
    THEN [code |-> constraintPrimaryKey, db |-> d]
    ELSE [code |-> 0,
          db |-> [d EXCEPT !.rows = @ \cup
                     {[tab |-> tab, key |-> key, value |-> value, vsize |-> vsize]}]]

\* replace into tab (key, value, vsize)
\* A replace that adds the new row next to the old; C6_LenCountsHas tells
\* it from execReplace.
execReplaceKeeping(d, tab, key, value, vsize) ==
    IF tab \notin d.tables THEN [code |-> 1, db |-> d]
    ELSE [code |-> 0,
          db |-> [d EXCEPT !.rows =
                     @ \cup {[tab |-> tab, key |-> key, value |-> value, vsize |-> vsize]}]]

execReplace(d, tab, key, value, vsize) ==
    IF tab \notin d.tables THEN [code |-> noSuchTable, db |-> d]
    ELSE [code |-> 0,
          db |-> [d EXCEPT !.rows =
                     {r \in @ : ~(r.tab = tab /\ r.key = key)} \cup
                     {[tab |-> tab, key |-> key, value |-> value, vsize |-> vsize]}]]

\* delete from tab where key = $key; n is RowsAffected
execDelete(d, tab, key) ==
    IF tab \notin d.tables THEN [code |-> noSuchTable, db |-> d, n |-> 0]
    ELSE [code |-> 0,
          db |-> [d EXCEPT !.rows = {r \in @ : ~(r.tab = tab /\ r.key = key)}],
          n |-> Cardinality({r \in rowsOf(d, tab) : r.key = key})]

\* select ... from tab where key = $key
queryKey(d, tab, key) ==
    IF tab \notin d.tables THEN [code |-> noSuchTable, rows |-> {}]
    ELSE [code |-> 0, rows |-> {r \in rowsOf(d, tab) : r.key = key}]

\* The query with key > $start; C5_ListOrder tells it from queryFrom.
queryAfter(d, tab, start) ==
    IF tab \notin d.tables THEN [code |-> 1, keys |-> <<>>]
    ELSE [code |-> 0,
          keys |-> SortAsc({r.key : r \in {x \in rowsOf(d, tab) : Less(start, x.key)}})]

\* select key from tab where key >= $start order by key
queryFrom(d, tab, start) ==
    IF tab \notin d.tables THEN [code |-> noSuchTable, keys |-> <<>>]
    ELSE [code |-> 0,
          keys |-> SortAsc({r.key : r \in {x \in rowsOf(d, tab) : Leq(start, x.key)}})]

\* select count(*) from tab
queryCount(d, tab) ==
    IF tab \notin d.tables THEN [code |-> noSuchTable, n |-> 0]
    ELSE [code |-> 0, n |-> Cardinality(rowsOf(d, tab))]

----------------------------------------------------------------------------
\* Transactions.  d is the database as the transaction finds it, f what the
\* unit of work returned when run on d: its error, and the database (or the
\* value) it produced.  A failed unit of work is rolled back.

withTxErr(d, f) ==
    IF closed THEN [err |-> ErrDBClosed, db |-> d]
    ELSE IF f.err # Nil THEN [err |-> f.err, db |-> d]
    ELSE [err |-> Nil, db |-> f.db]

withTxValue(f, zero) ==
    IF closed THEN [val |-> zero, err |-> ErrDBClosed]
    ELSE [val |-> f.val, err |-> f.err]

----------------------------------------------------------------------------
\* The calls, on database d.  s is a KV handle: tableName is the field of
\* the code, path the keyspace the handle was asked for.

\* One table for every path; C8_Isolation tells it from tableName.
tableNameShared(pfx) == encodeKey(<<>>)

tableName(pfx) == encodeKey(pfx)

NewKVCall(d, pfx) ==
    LET ktab == tableName(pfx)
        c    == execCreate(d, ktab)
        r    == withTxErr(d, [err |-> IF c.code = 0 THEN Nil ELSE sqliteError(c.code),
                           db |-> c.db])
    IN  [err |-> r.err, db |-> r.db, kv |-> [path |-> pfx, tableName |-> ktab]]

\* A Get that returns the empty value for a key without a row;
\* C3_NotFound tells it from GetCall.
GetCallEmpty(d, s, key) ==
    LET q == queryKey(d, s.tableName, encodeKey(key))
    IN  withTxValue(
            IF q.code # 0
            THEN [val |-> <<>>, err |-> Wrap("get", sqliteError(q.code))]
            ELSE IF q.rows = {} THEN [val |-> <<>>, err |-> Nil]
            ELSE decodeBlob((CHOOSE r \in q.rows : TRUE).value),
            <<>>)

GetCall(d, s, key) ==
    LET q == queryKey(d, s.tableName, encodeKey(key))
    IN  withTxValue(
            IF q.code # 0
            THEN [val |-> <<>>, err |-> Wrap("get", sqliteError(q.code))]
            ELSE IF q.rows = {} THEN [val |-> <<>>, err |-> KeyNotFound]
            ELSE decodeBlob((CHOOSE r \in q.rows : TRUE).value),
            <<>>)

\* A loop that stops at the first requested key without a row;
\* C9_HasSubset tells it from hasLoop.
RECURSIVE hasLoopBreak(_, _, _)
hasLoopBreak(d, s, keys) ==
    IF keys = <<>> THEN [val |-> {}, err |-> Nil]
    ELSE LET q == queryKey(d, s.tableName, encodeKey(Head(keys)))
         IN  IF q.code # 0
             THEN [val |-> {}, err |-> Wrap("stat", sqliteError(q.code))]
             ELSE IF q.rows = {} THEN [val |-> {}, err |-> Nil]
             ELSE LET rest == hasLoopBreak(d, s, Tail(keys))
                  IN  IF rest.err # Nil THEN rest
                      ELSE [val |-> {Head(keys)} \cup rest.val, err |-> Nil]

RECURSIVE hasLoop(_, _, _)
hasLoop(d, s, keys) ==
    IF keys = <<>> THEN [val |-> {}, err |-> Nil]
    ELSE LET q    == queryKey(d, s.tableName, encodeKey(Head(keys)))
             rest == hasLoop(d, s, Tail(keys))
         IN  IF q.code # 0
             THEN [val |-> {}, err |-> Wrap("stat", sqliteError(q.code))]
             ELSE IF rest.err # Nil THEN rest
             ELSE [val |-> (IF q.rows = {} THEN {} ELSE {Head(keys)}) \cup rest.val,
                   err |-> Nil]

HasCall(d, s, keys) == withTxValue(hasLoop(d, s, keys), {})

\* A Put that records the length of the bytes it stores;
\* C20_SizeIsOriginalLength tells it from PutCall.
PutCallStoredLen(d, s, key, data, replace) ==
    LET r == IF replace
             THEN execReplace(d, s.tableName, encodeKey(key), encodeBlob(data),
                              Len(encodeBlob(data)))
             ELSE execInsert(d, s.tableName, encodeKey(key), encodeBlob(data),
                             Len(encodeBlob(data)))
    IN  withTxErr(d,
            IF r.code = sqliteConstraintUnique THEN [err |-> KeyExists, db |-> r.db]
            ELSE IF r.code # 0
            THEN [err |-> Wrap("put", sqliteError(r.code)), db |-> r.db]
            ELSE [err |-> Nil, db |-> r.db])

PutCall(d, s, key, data, replace) ==
    LET r == IF replace
             THEN execReplace(d, s.tableName, encodeKey(key), encodeBlob(data), Len(data))
             ELSE execInsert(d, s.tableName, encodeKey(key), encodeBlob(data), Len(data))
    IN  withTxErr(d,
            IF r.code = sqliteConstraintUnique THEN [err |-> KeyExists, db |-> r.db]
            ELSE IF r.code # 0
            THEN [err |-> Wrap("put", sqliteError(r.code)), db |-> r.db]
            ELSE [err |-> Nil, db |-> r.db])

\* A Delete outside any transaction that looks the key up after the
\* statement, to report NotFound when it finds no row;
\* C4_DeleteNotFoundFrame tells it from DeleteCall.
DeleteCallLookup(d, s, key) ==
    LET r == execDelete(d, s.tableName, encodeKey(key))
    IN  IF closed THEN [err |-> ErrDBClosed, db |-> d]
        ELSE IF r.code # 0
        THEN [err |-> Wrap("delete", sqliteError(r.code)), db |-> r.db]
        ELSE IF queryKey(r.db, s.tableName, encodeKey(key)).rows = {}
        THEN [err |-> KeyNotFound, db |-> r.db]
        ELSE [err |-> Nil, db |-> r.db]

DeleteCall(d, s, key) ==
    LET r == execDelete(d, s.tableName, encodeKey(key))
    IN  withTxErr(d,
            IF r.code # 0
            THEN [err |-> Wrap("delete", sqliteError(r.code)), db |-> r.db]
            ELSE IF r.n = 0 THEN [err |-> KeyNotFound, db |-> r.db]
            ELSE [err |-> Nil, db |-> r.db])

\* The rows loop of List with a consumer that takes every key: the keys
\* yielded, and "invalid key" where decodeKey panics.
RECURSIVE rowsLoop(_)
rowsLoop(ekeys) ==
    IF ekeys = <<>> THEN [keys |-> <<>>, err |-> Nil]
    ELSE LET k == decodeKey(Head(ekeys))
         IN  IF ~k.ok THEN [keys |-> <<>>, err |-> <<"panic: invalid key">>]
             ELSE LET rest == rowsLoop(Tail(ekeys))
                  IN  [keys |-> <<k.out>> \o rest.keys, err |-> rest.err]

ListCall(d, s, start) ==
    LET q == queryFrom(d, s.tableName, encodeKey(start))
    IN  IF closed THEN [keys |-> <<>>, err |-> ErrDBClosed]
        ELSE IF q.code # 0
        THEN [keys |-> <<>>, err |-> Wrap("list", sqliteError(q.code))]
        ELSE rowsLoop(q.keys)

LenCall(d, s) ==
    LET q == queryCount(d, s.tableName)
    IN  withTxValue(
            IF q.code # 0 THEN [val |-> 0, err |-> sqliteError(q.code)]
            ELSE [val |-> q.n, err |-> Nil],
            0)

\* What the three steps of Close can return: on a closed pool both
\* statements fail and closing again does nothing; on an open one each
\* step succeeds or fails on its own.
CloseOutcomes ==
    IF closed
    THEN {[terr |-> ErrDBClosed, verr |-> ErrDBClosed, cerr |-> Nil]}
    ELSE [terr : {Nil, <<"checkpoint failed">>},
          verr : {Nil, <<"vacuum failed">>},
          cerr : {Nil, <<"close failed">>}]

\* Close, given what its steps return: the steps it ran and its error.
CloseCall(o) ==
    [steps |-> <<"wal_checkpoint">> \o <<"vacuum">> \o <<"db.Close">>,
     err   |-> Join(<<o.terr, o.verr, o.cerr>>)]

----------------------------------------------------------------------------
\* The state after New, and one action per call of a store that one caller
\* uses: the call runs from taking txmu to releasing it in one step.

Returned(op, err) == [op |-> op, err |-> err, steps |-> <<>>]

histPut(s, key, data) ==
    {e \in hist : ~(e.path = s.path /\ e.key = key)} \cup
        {[path |-> s.path, key |-> key, val |-> data]}

histDelete(s, key) == {e \in hist : ~(e.path = s.path /\ e.key = key)}

NoCall == [op |-> "none"]

InitCallers ==
    /\ txmu = [writer |-> 0, readers |-> {}]
    /\ submu = [writer |-> 0, readers |-> {}]
    /\ wtx = 0
    /\ pc = [p \in Callers |-> "idle"]
    /\ call = [p \in Callers |-> NoCall]
    /\ tx = [p \in Callers |-> NoCall]
    /\ rets = [p \in Callers |-> <<>>]

Init ==
    /\ compress \in BOOLEAN
    /\ closed = FALSE
    /\ db = [tables |-> {}, rows |-> {}]
    /\ kvs = {}
    /\ hist = {}
    /\ last = Returned("New", Nil)
    /\ InitCallers

NewKV(pfx) ==
    LET r == NewKVCall(db, pfx)
    IN  /\ db' = r.db
        /\ kvs' = IF r.err = Nil THEN kvs \cup {r.kv} ELSE kvs
        /\ last' = Returned("NewKV", r.err)
        /\ UNCHANGED <<compress, closed, hist>>
        /\ UNCHANGED callVars

Get(s, key) ==
    /\ last' = Returned("Get", GetCall(db, s, key).err)
    /\ UNCHANGED <<compress, closed, db, kvs, hist>>
    /\ UNCHANGED callVars

Has(s, keys) ==
    /\ last' = Returned("Has", HasCall(db, s, keys).err)
    /\ UNCHANGED <<compress, closed, db, kvs, hist>>
    /\ UNCHANGED callVars

Put(s, key, data, replace) ==
    LET r == PutCall(db, s, key, data, replace)
    IN  /\ db' = r.db
        /\ hist' = IF r.err = Nil THEN histPut(s, key, data) ELSE hist
        /\ last' = Returned("Put", r.err)
        /\ UNCHANGED <<compress, closed, kvs>>
        /\ UNCHANGED callVars

Delete(s, key) ==
    LET r == DeleteCall(db, s, key)
    IN  /\ db' = r.db
        /\ hist' = IF r.err = Nil THEN histDelete(s, key) ELSE hist
        /\ last' = Returned("Delete", r.err)
        /\ UNCHANGED <<compress, closed, kvs>>
        /\ UNCHANGED callVars

List(s, start) ==
    /\ last' = Returned("List", ListCall(db, s, start).err)
    /\ UNCHANGED <<compress, closed, db, kvs, hist>>
    /\ UNCHANGED callVars

KVLen(s) ==
    /\ last' = Returned("Len", LenCall(db, s).err)
    /\ UNCHANGED <<compress, closed, db, kvs, hist>>
    /\ UNCHANGED callVars

Close(o) ==
    LET r == CloseCall(o)
    IN  /\ closed' = TRUE
        /\ last' = [op |-> "Close", err |-> r.err, steps |-> r.steps]
        /\ UNCHANGED <<compress, db, kvs, hist>>
        /\ UNCHANGED callVars

Next ==
    \/ \E pfx \in Paths : NewKV(pfx)
    \/ \E s \in kvs, key \in Keys : Get(s, key)
    \/ \E s \in kvs, keys \in HasArgs : Has(s, keys)
    \/ \E s \in kvs, key \in Keys, data \in Values, replace \in BOOLEAN :
           Put(s, key, data, replace)
    \/ \E s \in kvs, key \in Keys : Delete(s, key)
    \/ \E s \in kvs, start \in Starts : List(s, start)
    \/ \E s \in kvs : KVLen(s)
    \/ \E o \in CloseOutcomes : Close(o)

Spec == Init /\ [][Next]_vars

----------------------------------------------------------------------------
\* The calls step by step, for callers that run at the same time.  A caller
\* asks for txmu ("lock": exclusive, "rlock": shared), holds it and runs its
\* unit of work in a transaction ("tx"), then commits or rolls back,
\* releases txmu and returns ("commit").

\* SQLITE_BUSY: a write by a transaction while another holds the write lock.
busy == 5

Result(op, err, val) == [op |-> op, err |-> err, val |-> val]

\* A Lock that goes on without taking txmu; C16_SameKeyPuts tells it from
\* Lock.
LockNone(p) ==
    /\ pc[p] = "lock"
    /\ pc' = [pc EXCEPT ![p] = "tx"]
    /\ UNCHANGED <<txmu, submu, wtx, call, tx, rets>>
    /\ UNCHANGED storeVars

\* A Lock that takes txmu shared, as RLock does; C7_ConcurrentPuts tells it
\* from Lock.
LockShared(p) ==
    /\ pc[p] = "lock"
    /\ txmu.writer = 0
    /\ txmu' = [txmu EXCEPT !.readers = @ \cup {p}]
    /\ pc' = [pc EXCEPT ![p] = "tx"]
    /\ UNCHANGED <<submu, wtx, call, tx, rets>>
    /\ UNCHANGED storeVars

\* A Lock that is granted to a call from inside a loop body over the shared
\* hold of the List it runs in; C27_BodyWriteBlocks tells it from Lock.
LockUpgrade(p) ==
    /\ pc[p] = "lock"
    /\ txmu.writer = 0
    /\ txmu.readers = {} \/ (call[p].inner /\ txmu.readers = {1})
    /\ txmu' = [txmu EXCEPT !.writer = p]
    /\ pc' = [pc EXCEPT ![p] = "tx"]
    /\ UNCHANGED <<submu, wtx, call, tx, rets>>
    /\ UNCHANGED storeVars

\* s.db.txmu.Lock()
Lock(p) ==
    /\ pc[p] = "lock"
    /\ txmu.writer = 0 /\ txmu.readers = {}
    /\ txmu' = [txmu EXCEPT !.writer = p]
    /\ pc' = [pc EXCEPT ![p] = "tx"]
    /\ UNCHANGED <<submu, wtx, call, tx, rets>>
    /\ UNCHANGED storeVars

\* s.db.txmu.RLock()
RLock(p) ==
    /\ pc[p] = "rlock"
    /\ txmu.writer = 0
    /\ txmu' = [txmu EXCEPT !.readers = @ \cup {p}]
    /\ pc' = [pc EXCEPT ![p] = "tx"]
    /\ UNCHANGED <<submu, wtx, call, tx, rets>>
    /\ UNCHANGED storeVars

\* The unit of work of a Put: the statement fails with SQLITE_BUSY when
\* another transaction holds the engine's write lock, and takes that lock
\* otherwise.
ExecPut(p) ==
    LET c == call[p]
    IN  /\ pc[p] = "tx" /\ c.op = "Put"
        /\ IF wtx \notin {0, p} /\ ~closed
           THEN /\ tx' = [tx EXCEPT ![p] =
                             [err |-> Wrap("put", sqliteError(busy)), db |-> db, val |-> 0]]
                /\ wtx' = wtx
           ELSE /\ tx' = [tx EXCEPT ![p] =
                             [err |-> PutCall(db, c.s, c.key, c.data, c.replace).err,
                              db  |-> PutCall(db, c.s, c.key, c.data, c.replace).db,
                              val |-> 0]]
                /\ wtx' = IF closed THEN wtx ELSE p
        /\ pc' = [pc EXCEPT ![p] = "commit"]
        /\ UNCHANGED <<txmu, submu, call, rets>>
        /\ UNCHANGED storeVars

\* The unit of work of a Len.
ExecLen(p) ==
    LET c == call[p]
    IN  /\ pc[p] = "tx" /\ c.op = "Len"
        /\ tx' = [tx EXCEPT ![p] =
                     [err |-> LenCall(db, c.s).err, db |-> db, val |-> LenCall(db, c.s).val]]
        /\ pc' = [pc EXCEPT ![p] = "commit"]
        /\ UNCHANGED <<txmu, submu, wtx, call, rets>>
        /\ UNCHANGED storeVars

\* tx.Commit() or the deferred tx.Rollback(), the deferred Unlock or RUnlock,
\* and the return.
Finish(p) ==
    LET c == call[p]
        r == tx[p]
    IN  /\ pc[p] = "commit"
        /\ db' = r.db
        /\ wtx' = IF wtx = p THEN 0 ELSE wtx
        /\ txmu' = [writer  |-> IF txmu.writer = p THEN 0 ELSE txmu.writer,
                    readers |-> txmu.readers \ {p}]
        /\ hist' = IF c.op = "Put" /\ r.err = Nil THEN histPut(c.s, c.key, c.data)
                   ELSE hist
        /\ last' = Returned(c.op, r.err)
        /\ rets' = [rets EXCEPT ![p] = Append(@, Result(c.op, r.err, r.val))]
        /\ pc' = [pc EXCEPT ![p] = "idle"]
        /\ call' = [call EXCEPT ![p] = NoCall]
        /\ tx' = [tx EXCEPT ![p] = NoCall]
        /\ UNCHANGED <<compress, closed, kvs, submu>>

----------------------------------------------------------------------------
\* Concurrent Puts: on a store whose one keyspace is empty, every caller
\* puts a key of its own, once, and when all these Puts have returned any
\* caller may ask for Len, once.

rootKV == [path |-> <<65>>, tableName |-> tableName(<<65>>)]

KeyOf(p) == <<p>>

Called(p, op) ==
    \/ call[p].op = op
    \/ \E i \in 1..Len(rets[p]) : rets[p][i].op = op

ReturnedFrom(p, op) == \E i \in 1..Len(rets[p]) : rets[p][i].op = op

InitPuts ==
    /\ compress \in BOOLEAN
    /\ closed = FALSE
    /\ db = [tables |-> {rootKV.tableName}, rows |-> {}]
    /\ kvs = {rootKV}
    /\ hist = {}
    /\ last = Returned("NewKV", Nil)
    /\ InitCallers

CallPut(p, data, replace) ==
    /\ pc[p] = "idle" /\ ~Called(p, "Put")
    /\ call' = [call EXCEPT ![p] =
                   [op |-> "Put", s |-> rootKV, key |-> KeyOf(p),
                    data |-> data, replace |-> replace]]
    /\ pc' = [pc EXCEPT ![p] = "lock"]
    /\ UNCHANGED <<txmu, submu, wtx, tx, rets>>
    /\ UNCHANGED storeVars

CallLen(p) ==
    /\ pc[p] = "idle" /\ ~Called(p, "Len")
    /\ \A q \in Callers : ReturnedFrom(q, "Put")
    /\ call' = [call EXCEPT ![p] = [op |-> "Len", s |-> rootKV]]
    /\ pc' = [pc EXCEPT ![p] = "rlock"]
    /\ UNCHANGED <<txmu, submu, wtx, tx, rets>>
    /\ UNCHANGED storeVars

NextPuts ==
    \/ \E p \in Callers, data \in Values, replace \in BOOLEAN : CallPut(p, data, replace)
    \/ \E p \in Callers : CallLen(p)
    \/ \E p \in Callers : Lock(p)
    \/ \E p \in Callers : RLock(p)
    \/ \E p \in Callers : ExecPut(p)
    \/ \E p \in Callers : ExecLen(p)
    \/ \E p \in Callers : Finish(p)

SpecPuts == InitPuts /\ [][NextPuts]_vars

----------------------------------------------------------------------------
\* Callers of every method at the same time, with contexts that may be
\* cancelled, statements and commits that may fail, and a pool of PoolSize
\* connections.  A call record holds the method, the handle s, the
\* arguments (key is also the start of a List) and done, whether the
\* caller's context is cancelled.  A unit-of-work record holds the error and
\* the value the call is to return, db, the database the transaction would
\* commit, open, whether the transaction holds a connection, and for List
\* the keys handed to the consumer so far (val), the keys the cursor has
\* left (rows) and stopped, whether the consumer returned false.

Canceled == <<"context canceled">>

ErrIO == <<"disk I/O error">>

\* The callers of this part.
Clients == {1, 2}

Writers == {"Put", "Delete", "NewKV", "Close"}

otherKV == [path |-> <<66>>, tableName |-> tableName(<<66>>)]

NewCall(op, s, key, data, replace) ==
    [op |-> op, s |-> s, key |-> key, data |-> data, replace |-> replace, done |-> FALSE]

\* The calls on the root handle: the first key is read, written with every
\* value, with and without replace, and deleted; the second is inserted.
RootCalls ==
    {NewCall(op, rootKV, <<9>>, <<>>, FALSE) : op \in {"Get", "Has", "Delete"}}
    \cup {NewCall("List", rootKV, start, <<>>, FALSE) : start \in {<<>>, <<160>>}}
    \cup {NewCall("Put", rootKV, <<9>>, data, replace) :
              data \in Values, replace \in BOOLEAN}
    \cup {NewCall("Put", rootKV, <<160>>, <<97>>, FALSE),
          NewCall("Len", rootKV, <<>>, <<>>, FALSE)}

ConcCalls ==
    RootCalls \cup {NewCall("NewKV", otherKV, <<>>, <<>>, FALSE),
                    NewCall("Close", rootKV, <<>>, <<>>, FALSE)}

\* The first thing each method does: txmu.Lock() or txmu.RLock().
entryCloseUnlocked(op) ==
    IF op = "Close" THEN "tx" ELSE IF op \in Writers THEN "lock" ELSE "rlock"

entryDeleteShared(op) == IF op \in Writers \ {"Delete"} THEN "lock" ELSE "rlock"

entry(op) == IF op \in Writers THEN "lock" ELSE "rlock"

\* p is between acquiring and releasing the lock.
Inside(p) == pc[p] \in {"tx", "yield", "commit", "yielderr"}

connsInUse ==
    Cardinality({q \in Callers : pc[q] \in {"yield", "commit"} /\ tx[q].open})

zero(op) == IF op = "Get" THEN <<>> ELSE IF op = "Has" THEN {} ELSE 0

Work0(c, err, d, open) ==
    [err |-> err, db |-> d, val |-> zero(c.op), open |-> open,
     rows |-> <<>>, stopped |-> FALSE]

\* fmt.Errorf("get: %w", err) and the like; Len and NewKV return err as it is.
stmtError(c, e) ==
    IF c.op = "Get" THEN Wrap("get", e)
    ELSE IF c.op = "Has" THEN Wrap("stat", e)
    ELSE IF c.op = "Put" THEN Wrap("put", e)
    ELSE IF c.op = "Delete" THEN Wrap("delete", e)
    ELSE IF c.op = "List" THEN Wrap("list", e)
    ELSE e

\* What the function handed to withTxValue or withTxErr does on database d.
unitOfWork(d, c) ==
    IF c.op = "Get"
    THEN [Work0(c, GetCall(d, c.s, c.key).err, d, TRUE)
              EXCEPT !.val = GetCall(d, c.s, c.key).val]
    ELSE IF c.op = "Has"
    THEN [Work0(c, HasCall(d, c.s, <<c.key>>).err, d, TRUE)
              EXCEPT !.val = HasCall(d, c.s, <<c.key>>).val]
    ELSE IF c.op = "Len"
    THEN [Work0(c, LenCall(d, c.s).err, d, TRUE) EXCEPT !.val = LenCall(d, c.s).val]
    ELSE IF c.op = "Put"
    THEN Work0(c, PutCall(d, c.s, c.key, c.data, c.replace).err,
               PutCall(d, c.s, c.key, c.data, c.replace).db, TRUE)
    ELSE IF c.op = "Delete"
    THEN Work0(c, DeleteCall(d, c.s, c.key).err, DeleteCall(d, c.s, c.key).db, TRUE)
    ELSE Work0(c, NewKVCall(d, c.s.path).err, NewKVCall(d, c.s.path).db, TRUE)

\* A caller calls a method.
Call(p, c) ==
    /\ pc[p] = "idle"
    /\ call' = [call EXCEPT ![p] = c]
    /\ pc' = [pc EXCEPT ![p] = entry(c.op)]
    /\ UNCHANGED <<txmu, submu, wtx, tx, rets>>
    /\ UNCHANGED storeVars

\* The context of a call in progress is cancelled, or its deadline passes.
Cancel(p) ==
    /\ pc[p] # "idle" /\ ~call[p].done
    /\ call' = [call EXCEPT ![p].done = TRUE]
    /\ UNCHANGED <<txmu, submu, wtx, pc, tx, rets>>
    /\ UNCHANGED storeVars

\* A unit of work that runs in a transaction although the pool is closed;
\* C28_AfterClose tells it from Work.
WorkOpen(p, fail) ==
    LET c     == call[p]
        begun == ~c.done
        isBusy == c.op \in Writers /\ wtx \notin {0, p}
    IN  /\ pc[p] = "tx" /\ c.op \notin {"List", "Close"}
        /\ begun => connsInUse < PoolSize
        /\ fail => (begun /\ ~isBusy)
        /\ tx' = [tx EXCEPT ![p] =
                     IF c.done THEN Work0(c, Canceled, db, FALSE)
                     ELSE IF isBusy THEN Work0(c, stmtError(c, sqliteError(busy)), db, TRUE)
                     ELSE IF fail THEN Work0(c, stmtError(c, ErrIO), db, TRUE)
                     ELSE unitOfWork(db, c)]
        /\ wtx' = IF begun /\ c.op \in Writers /\ wtx = 0 THEN p ELSE wtx
        /\ pc' = [pc EXCEPT ![p] = "commit"]
        /\ UNCHANGED <<txmu, submu, call, rets>>
        /\ UNCHANGED storeVars

\* db.BeginTx and the function handed to withTxValue or withTxErr, for every
\* method but List and Close.  BeginTx fails on a closed pool and on a
\* cancelled context, and waits for a connection; the statement of a writer
\* fails with SQLITE_BUSY while another transaction holds the engine's write
\* lock; fail: the statement fails.
Work(p, fail) ==
    LET c     == call[p]
        begun == ~closed /\ ~c.done
        isBusy == c.op \in Writers /\ wtx \notin {0, p}
    IN  /\ pc[p] = "tx" /\ c.op \notin {"List", "Close"}
        /\ begun => connsInUse < PoolSize
        /\ fail => (begun /\ ~isBusy)
        /\ tx' = [tx EXCEPT ![p] =
                     IF closed THEN Work0(c, ErrDBClosed, db, FALSE)
                     ELSE IF c.done THEN Work0(c, Canceled, db, FALSE)
                     ELSE IF isBusy THEN Work0(c, stmtError(c, sqliteError(busy)), db, TRUE)
                     ELSE IF fail THEN Work0(c, stmtError(c, ErrIO), db, TRUE)
                     ELSE unitOfWork(db, c)]
        /\ wtx' = IF begun /\ c.op \in Writers /\ wtx = 0 THEN p ELSE wtx
        /\ pc' = [pc EXCEPT ![p] = "commit"]
        /\ UNCHANGED <<txmu, submu, call, rets>>
        /\ UNCHANGED storeVars

\* A List that gives txmu back once its query has run.
WorkListUnlock(p, fail) ==
    LET c     == call[p]
        begun == ~closed /\ ~c.done
        r     == ListCall(db, c.s, c.key)
    IN  /\ pc[p] = "tx" /\ c.op = "List"
        /\ begun => connsInUse < PoolSize
        /\ fail => begun
        /\ tx' = [tx EXCEPT ![p] =
                     IF closed THEN Work0(c, ErrDBClosed, db, FALSE)
                     ELSE IF c.done THEN Work0(c, Canceled, db, FALSE)
                     ELSE IF fail THEN Work0(c, stmtError(c, ErrIO), db, TRUE)
                     ELSE IF r.keys = <<>>
                     THEN [Work0(c, r.err, db, TRUE) EXCEPT !.val = <<>>]
                     ELSE [Work0(c, Nil, db, TRUE)
                               EXCEPT !.val = <<Head(r.keys)>>, !.rows = Tail(r.keys)]]
        /\ pc' = [pc EXCEPT ![p] =
                     IF begun /\ ~fail /\ r.keys # <<>> THEN "yield" ELSE "commit"]
        /\ txmu' = [txmu EXCEPT !.readers = @ \ {p}]
        /\ UNCHANGED <<submu, wtx, call, rets>>
        /\ UNCHANGED storeVars

\* db.BeginTx and the query of List; with rows, the consumer is called with
\* the first key.
WorkList(p, fail) ==
    LET c     == call[p]
        begun == ~closed /\ ~c.done
        r     == ListCall(db, c.s, c.key)
    IN  /\ pc[p] = "tx" /\ c.op = "List"
        /\ begun => connsInUse < PoolSize
        /\ fail => begun
        /\ tx' = [tx EXCEPT ![p] =
                     IF closed THEN Work0(c, ErrDBClosed, db, FALSE)
                     ELSE IF c.done THEN Work0(c, Canceled, db, FALSE)
                     ELSE IF fail THEN Work0(c, stmtError(c, ErrIO), db, TRUE)
                     ELSE IF r.keys = <<>>
                     THEN [Work0(c, r.err, db, TRUE) EXCEPT !.val = <<>>]
                     ELSE [Work0(c, Nil, db, TRUE)
                               EXCEPT !.val = <<Head(r.keys)>>, !.rows = Tail(r.keys)]]
        /\ pc' = [pc EXCEPT ![p] =
                     IF begun /\ ~fail /\ r.keys # <<>> THEN "yield" ELSE "commit"]
        /\ UNCHANGED <<txmu, submu, wtx, call, rets>>
        /\ UNCHANGED storeVars

\* The consumer returns from a key: false (more = FALSE) ends the iteration;
\* else rows.Next(), which ends the loop on a cancelled context or at the
\* last row, and else the consumer is called with the next key.
ConsumerReturns(p, more) ==
    LET c == call[p]
        r == tx[p]
    IN  /\ pc[p] = "yield"
        /\ IF ~more
           THEN /\ tx' = [tx EXCEPT ![p].stopped = TRUE]
                /\ pc' = [pc EXCEPT ![p] = "commit"]
           ELSE IF c.done \/ r.rows = <<>>
           THEN /\ tx' = tx
                /\ pc' = [pc EXCEPT ![p] = "commit"]
           ELSE /\ tx' = [tx EXCEPT ![p].val = Append(@, Head(r.rows)),
                                    ![p].rows = Tail(@)]
                /\ pc' = pc
        /\ UNCHANGED <<txmu, submu, wtx, call, rets>>
        /\ UNCHANGED storeVars

\* The three steps of Close, with txmu held.
CloseWork(p, o) ==
    /\ pc[p] = "tx" /\ call[p].op = "Close"
    /\ closed' = TRUE
    /\ tx' = [tx EXCEPT ![p] = Work0(call[p], CloseCall(o).err, db, FALSE)]
    /\ pc' = [pc EXCEPT ![p] = "commit"]
    /\ UNCHANGED <<txmu, submu, wtx, call, rets>>
    /\ UNCHANGED <<compress, db, kvs, hist, last>>

\* A return that rolls back where it should commit.
ReturnRollback(p, fail) ==
    LET c   == call[p]
        r   == tx[p]
        err == IF r.err # Nil \/ ~r.open THEN r.err
               ELSE IF c.done THEN Canceled
               ELSE IF fail THEN ErrIO
               ELSE Nil
    IN  /\ pc[p] = "commit"
        /\ fail => (r.open /\ r.err = Nil /\ ~c.done)
        /\ wtx' = IF wtx = p THEN 0 ELSE wtx
        /\ IF c.op = "List" /\ err # Nil
           THEN /\ pc' = [pc EXCEPT ![p] = "yielderr"]
                /\ tx' = [tx EXCEPT ![p].err = err, ![p].open = FALSE]
                /\ UNCHANGED <<txmu, submu, call, rets>>
                /\ UNCHANGED storeVars
           ELSE /\ db' = db
                /\ kvs' = IF c.op = "NewKV" /\ err = Nil THEN kvs \cup {c.s} ELSE kvs
                /\ hist' = IF err # Nil THEN hist
                           ELSE IF c.op = "Put" THEN histPut(c.s, c.key, c.data)
                           ELSE IF c.op = "Delete" THEN histDelete(c.s, c.key)
                           ELSE hist
                /\ txmu' = [writer  |-> IF txmu.writer = p THEN 0 ELSE txmu.writer,
                            readers |-> txmu.readers \ {p}]
                /\ submu' = [writer  |-> IF submu.writer = p THEN 0 ELSE submu.writer,
                             readers |-> submu.readers \ {p}]
                /\ pc' = [pc EXCEPT ![p] = "idle"]
                /\ call' = [call EXCEPT ![p] = NoCall]
                /\ tx' = [tx EXCEPT ![p] = NoCall]
                /\ UNCHANGED <<compress, closed, last, rets>>

\* A return that commits before it looks at the context.
ReturnCommitFirst(p, fail) ==
    LET c   == call[p]
        r   == tx[p]
        err == IF r.err # Nil \/ ~r.open THEN r.err
               ELSE IF c.done THEN Canceled
               ELSE IF fail THEN ErrIO
               ELSE Nil
    IN  /\ pc[p] = "commit"
        /\ fail => (r.open /\ r.err = Nil /\ ~c.done)
        /\ wtx' = IF wtx = p THEN 0 ELSE wtx
        /\ IF c.op = "List" /\ err # Nil
           THEN /\ pc' = [pc EXCEPT ![p] = "yielderr"]
                /\ tx' = [tx EXCEPT ![p].err = err, ![p].open = FALSE]
                /\ UNCHANGED <<txmu, submu, call, rets>>
                /\ UNCHANGED storeVars
           ELSE /\ db' = IF r.open /\ r.err = Nil /\ c.op \in {"Put", "Delete", "NewKV"} THEN r.db ELSE db
                /\ kvs' = IF c.op = "NewKV" /\ err = Nil THEN kvs \cup {c.s} ELSE kvs
                /\ hist' = IF err # Nil THEN hist
                           ELSE IF c.op = "Put" THEN histPut(c.s, c.key, c.data)
                           ELSE IF c.op = "Delete" THEN histDelete(c.s, c.key)
                           ELSE hist
                /\ txmu' = [writer  |-> IF txmu.writer = p THEN 0 ELSE txmu.writer,
                            readers |-> txmu.readers \ {p}]
                /\ submu' = [writer  |-> IF submu.writer = p THEN 0 ELSE submu.writer,
                             readers |-> submu.readers \ {p}]
                /\ pc' = [pc EXCEPT ![p] = "idle"]
                /\ call' = [call EXCEPT ![p] = NoCall]
                /\ tx' = [tx EXCEPT ![p] = NoCall]
                /\ UNCHANGED <<compress, closed, last, rets>>

\* tx.Commit(), or the deferred tx.Rollback() after an error; Commit fails
\* on a cancelled context, or by itself (fail).  Then List, with an error,
\* calls the consumer with it; every other call releases txmu and returns.
Return(p, fail) ==
    LET c   == call[p]
        r   == tx[p]
        err == IF r.err # Nil \/ ~r.open THEN r.err
               ELSE IF c.done THEN Canceled
               ELSE IF fail THEN ErrIO
               ELSE Nil
    IN  /\ pc[p] = "commit"
        /\ fail => (r.open /\ r.err = Nil /\ ~c.done)
        /\ wtx' = IF wtx = p THEN 0 ELSE wtx
        /\ IF c.op = "List" /\ err # Nil
           THEN /\ pc' = [pc EXCEPT ![p] = "yielderr"]
                /\ tx' = [tx EXCEPT ![p].err = err, ![p].open = FALSE]
                /\ UNCHANGED <<txmu, submu, call, rets>>
                /\ UNCHANGED storeVars
           ELSE /\ db' = IF err = Nil /\ c.op \in {"Put", "Delete", "NewKV"} THEN r.db ELSE db
                /\ kvs' = IF c.op = "NewKV" /\ err = Nil THEN kvs \cup {c.s} ELSE kvs
                /\ hist' = IF err # Nil THEN hist
                           ELSE IF c.op = "Put" THEN histPut(c.s, c.key, c.data)
                           ELSE IF c.op = "Delete" THEN histDelete(c.s, c.key)
                           ELSE hist
                /\ txmu' = [writer  |-> IF txmu.writer = p THEN 0 ELSE txmu.writer,
                            readers |-> txmu.readers \ {p}]
                /\ submu' = [writer  |-> IF submu.writer = p THEN 0 ELSE submu.writer,
                             readers |-> submu.readers \ {p}]
                /\ pc' = [pc EXCEPT ![p] = "idle"]
                /\ call' = [call EXCEPT ![p] = NoCall]
                /\ tx' = [tx EXCEPT ![p] = NoCall]
                /\ UNCHANGED <<compress, closed, last, rets>>

\* The consumer returns from the error List handed it; List releases txmu.
ErrYieldReturns(p) ==
    /\ pc[p] = "yielderr"
    /\ txmu' = [txmu EXCEPT !.readers = @ \ {p}]
    /\ pc' = [pc EXCEPT ![p] = "idle"]
    /\ call' = [call EXCEPT ![p] = NoCall]
    /\ tx' = [tx EXCEPT ![p] = NoCall]
    /\ UNCHANGED <<submu, wtx, rets>>
    /\ UNCHANGED storeVars

NextConc ==
    \/ \E p \in Clients, c \in ConcCalls : Call(p, c)
    \/ \E p \in Clients : Cancel(p)
    \/ \E p \in Clients : Lock(p)
    \/ \E p \in Clients : RLock(p)
    \/ \E p \in Clients, fail \in BOOLEAN : Work(p, fail)
    \/ \E p \in Clients, fail \in BOOLEAN : WorkList(p, fail)
    \/ \E p \in Clients, more \in BOOLEAN : ConsumerReturns(p, more)
    \/ \E p \in Clients, o \in CloseOutcomes : CloseWork(p, o)
    \/ \E p \in Clients, fail \in BOOLEAN : Return(p, fail)
    \/ \E p \in Clients : ErrYieldReturns(p)

SpecConc == InitPuts /\ [][NextConc]_vars

----------------------------------------------------------------------------
\* Sub-stores as dbMonitor makes them: Sub returns a Store around a new
\* dbMonitor that has the database of its parent and a txmu of its own, and
\* the KV handles of a dbMonitor lock the txmu of that dbMonitor.

subKV == [path |-> <<66, 65>>, tableName |-> tableName(<<66, 65>>)]

\* The dbMonitor a handle points to.
monitorOf(s) == IF s = subKV THEN "sub" ELSE "root"

SubCalls ==
    {NewCall("Get", s, <<9>>, <<>>, FALSE) : s \in kvs}
    \cup {NewCall("Put", s, <<9>>, data, replace) :
              s \in kvs, data \in Values, replace \in BOOLEAN}

\* Sub on the root store, and KV on the store it returns.
SubStore ==
    /\ subKV \notin kvs
    /\ \A p \in Clients : pc[p] = "idle"
    /\ submu' = [writer |-> 0, readers |-> {}]
    /\ db' = NewKVCall(db, subKV.path).db
    /\ kvs' = kvs \cup {subKV}
    /\ UNCHANGED <<compress, closed, hist, last>>
    /\ UNCHANGED <<txmu, wtx, pc, call, tx, rets>>

RootLock(p) == pc[p] = "lock" /\ monitorOf(call[p].s) = "root" /\ Lock(p)

RootRLock(p) == pc[p] = "rlock" /\ monitorOf(call[p].s) = "root" /\ RLock(p)

\* s.db.txmu.Lock() through a handle of the sub-store
SubLock(p) ==
    /\ pc[p] = "lock" /\ monitorOf(call[p].s) = "sub"
    /\ submu.writer = 0 /\ submu.readers = {}
    /\ submu' = [submu EXCEPT !.writer = p]
    /\ pc' = [pc EXCEPT ![p] = "tx"]
    /\ UNCHANGED <<txmu, wtx, call, tx, rets>>
    /\ UNCHANGED storeVars

\* s.db.txmu.RLock() through a handle of the sub-store
SubRLock(p) ==
    /\ pc[p] = "rlock" /\ monitorOf(call[p].s) = "sub"
    /\ submu.writer = 0
    /\ submu' = [submu EXCEPT !.readers = @ \cup {p}]
    /\ pc' = [pc EXCEPT ![p] = "tx"]
    /\ UNCHANGED <<txmu, wtx, call, tx, rets>>
    /\ UNCHANGED storeVars

NextSub ==
    \/ SubStore
    \/ \E p \in Clients, c \in SubCalls : Call(p, c)
    \/ \E p \in Clients : RootLock(p)
    \/ \E p \in Clients : RootRLock(p)
    \/ \E p \in Clients : SubLock(p)
    \/ \E p \in Clients : SubRLock(p)
    \/ \E p \in Clients, fail \in BOOLEAN : Work(p, fail)
    \/ \E p \in Clients, fail \in BOOLEAN : Return(p, fail)

SpecSub == InitPuts /\ [][NextSub]_vars

----------------------------------------------------------------------------
\* Concurrent Puts of one key: on a store whose one keyspace is empty, every
\* caller puts the same key once, each with a value of its own, with or
\* without replace.

DataOf(p) == [i \in 1..p |-> 97]

CallPutSame(p, replace) ==
    /\ pc[p] = "idle" /\ ~Called(p, "Put")
    /\ call' = [call EXCEPT ![p] =
                   [op |-> "Put", s |-> rootKV, key |-> <<9>>,
                    data |-> DataOf(p), replace |-> replace]]
    /\ pc' = [pc EXCEPT ![p] = "lock"]
    /\ UNCHANGED <<txmu, submu, wtx, tx, rets>>
    /\ UNCHANGED storeVars

NextSame ==
    \/ \E p \in Callers, replace \in BOOLEAN : CallPutSame(p, replace)
    \/ \E p \in Callers : Lock(p)
    \/ \E p \in Callers : ExecPut(p)
    \/ \E p \in Callers : Finish(p)

SpecSame == InitPuts /\ [][NextSame]_vars

----------------------------------------------------------------------------
\* Keyspaces requested at the same time: the callers ask for the keyspace
\* that is there, with rows in it, and for one that is not, again and again,
\* between Puts and Deletes of one key.

KVCalls ==
    {NewCall("NewKV", s, <<>>, <<>>, FALSE) : s \in {rootKV, otherKV}}
    \cup {NewCall("Put", s, <<9>>, <<97>>, TRUE) : s \in kvs}
    \cup {NewCall("Delete", rootKV, <<9>>, <<>>, FALSE)}

NextKV ==
    \/ \E p \in Clients, c \in KVCalls : Call(p, c)
    \/ \E p \in Clients : Cancel(p)
    \/ \E p \in Clients : Lock(p)
    \/ \E p \in Clients, fail \in BOOLEAN : Work(p, fail)
    \/ \E p \in Clients, fail \in BOOLEAN : Return(p, fail)

SpecKV == InitPuts /\ [][NextKV]_vars

----------------------------------------------------------------------------
\* Engine calls that fail after the statement has run: rows.Next() in the
\* loop of List, and rsp.RowsAffected() in Delete.

FailCalls ==
    {NewCall("Put", rootKV, key, <<97>>, FALSE) : key \in Keys}
    \cup {NewCall("Delete", rootKV, <<9>>, <<>>, FALSE),
          NewCall("List", rootKV, <<>>, <<>>, FALSE)}

\* rows.Next() fails where a further row is due: it records the error,
\* closes the rows and returns false; the loop ends, rows.Close() on the
\* closed rows returns nil, and nothing asks rows.Err().
NextFails(p) ==
    /\ pc[p] = "yield" /\ tx[p].rows # <<>>
    /\ pc' = [pc EXCEPT ![p] = "commit"]
    /\ UNCHANGED <<txmu, submu, wtx, call, tx, rets>>
    /\ UNCHANGED storeVars

\* The delete statement runs and rsp.RowsAffected() fails: its error is
\* dropped and nr is zero.
RowsAffectedFails(p) ==
    LET c == call[p]
    IN  /\ pc[p] = "tx" /\ c.op = "Delete"
        /\ ~closed /\ ~c.done /\ wtx \in {0, p}
        /\ connsInUse < PoolSize
        /\ tx' = [tx EXCEPT ![p] = Work0(c, KeyNotFound, db, TRUE)]
        /\ wtx' = p
        /\ pc' = [pc EXCEPT ![p] = "commit"]
        /\ UNCHANGED <<txmu, submu, call, rets>>
        /\ UNCHANGED storeVars

NextFail ==
    \/ \E p \in Clients, c \in FailCalls : Call(p, c)
    \/ \E p \in Clients : Lock(p)
    \/ \E p \in Clients : RLock(p)
    \/ \E p \in Clients, fail \in BOOLEAN : Work(p, fail)
    \/ \E p \in Clients, fail \in BOOLEAN : WorkList(p, fail)
    \/ \E p \in Clients, more \in BOOLEAN : ConsumerReturns(p, more)
    \/ \E p \in Clients : NextFails(p)
    \/ \E p \in Clients : RowsAffectedFails(p)
    \/ \E p \in Clients, fail \in BOOLEAN : Return(p, fail)
    \/ \E p \in Clients : ErrYieldReturns(p)

SpecFail == InitPuts /\ [][NextFail]_vars

----------------------------------------------------------------------------
\* Keys of every length up to MaxKeyLen, of a byte below 16 and one above
\* 159, so that digits and letters appear in both places of a code: they are
\* stored, deleted and listed from every start on one keyspace.

KeySpace == SeqsUpTo({9, 160}, MaxKeyLen)

NextKeys ==
    \/ \E key \in KeySpace :
           Cardinality(hist) < MaxStored /\ Put(rootKV, key, <<97>>, FALSE)
    \/ \E key \in KeySpace : Delete(rootKV, key)
    \/ \E start \in KeySpace : List(rootKV, start)

SpecKeys == InitPuts /\ [][NextKeys]_vars

----------------------------------------------------------------------------
\* A writer among readers that keep arriving.  The first caller writes and
\* closes, the second reads, and sync.RWMutex admits no new reader while a
\* Lock call waits.  Whoever holds txmu goes on to release it, a consumer
\* returns from every key, and a caller that can take the lock for good
\* takes it; no caller has to call again.

WriterCalls ==
    {NewCall("Put", rootKV, <<9>>, <<97>>, TRUE),
     NewCall("Delete", rootKV, <<9>>, <<>>, FALSE)}
    \cup {NewCall("Close", rootKV, <<>>, <<>>, FALSE)}

ReaderCalls ==
    {NewCall("Get", rootKV, <<9>>, <<>>, FALSE)}
    \cup {NewCall("List", rootKV, <<>>, <<>>, FALSE)}

\* A reader that takes txmu shared past a waiting Lock call.
RLockBarging(p) ==
    /\ pc[p] = "rlock"
    /\ txmu.writer = 0
    /\ txmu' = [txmu EXCEPT !.readers = @ \cup {p}]
    /\ pc' = [pc EXCEPT ![p] = "tx"]
    /\ UNCHANGED <<submu, wtx, call, tx, rets>>
    /\ UNCHANGED storeVars

\* s.db.txmu.RLock() as sync.RWMutex grants it: not while a Lock call holds
\* txmu, and not while one waits for it.
RLockWaiting(p) ==
    /\ pc[p] = "rlock"
    /\ txmu.writer = 0
    /\ \A q \in Clients : pc[q] # "lock"
    /\ txmu' = [txmu EXCEPT !.readers = @ \cup {p}]
    /\ pc' = [pc EXCEPT ![p] = "tx"]
    /\ UNCHANGED <<submu, wtx, call, tx, rets>>
    /\ UNCHANGED storeVars

Holds(p) ==
    \/ \E fail \in BOOLEAN : Work(p, fail)
    \/ \E fail \in BOOLEAN : WorkList(p, fail)
    \/ \E more \in BOOLEAN : ConsumerReturns(p, more)
    \/ \E o \in CloseOutcomes : CloseWork(p, o)
    \/ \E fail \in BOOLEAN : Return(p, fail)
    \/ ErrYieldReturns(p)

NextStarve ==
    \/ \E c \in WriterCalls : Call(1, c)
    \/ \E c \in ReaderCalls : Call(2, c)
    \/ \E p \in Clients : Lock(p)
    \/ \E p \in Clients : RLockWaiting(p)
    \/ \E p \in Clients : Holds(p)

SpecStarve ==
    /\ InitPuts
    /\ [][NextStarve]_vars
    /\ \A p \in Clients : WF_vars(Lock(p)) /\ WF_vars(Holds(p))

----------------------------------------------------------------------------
\* Writes from inside the loop body of a List.  The first caller stores keys
\* and ranges over List; the calls of the second are writes, made either by
\* a caller of its own (inner = FALSE) or by the loop body of the first while
\* it runs (inner = TRUE), and then the body returns only after the call.

BodyCall(op, s, key, data, replace, inner) ==
    [op |-> op, s |-> s, key |-> key, data |-> data, replace |-> replace,
     done |-> FALSE, inner |-> inner]

IterCalls ==
    {BodyCall("Put", rootKV, key, <<97>>, FALSE, FALSE) : key \in Keys}
    \cup {BodyCall("List", rootKV, <<>>, <<>>, FALSE, FALSE)}

WriteCalls(inner) ==
    {BodyCall("Put", rootKV, <<160>>, <<>>, TRUE, inner),
     BodyCall("Delete", rootKV, <<9>>, <<>>, FALSE, inner),
     BodyCall("NewKV", otherKV, <<>>, <<>>, FALSE, inner),
     BodyCall("Close", rootKV, <<>>, <<>>, FALSE, inner)}

\* The loop body of the first caller calls a method.
CallInBody(c) == pc[1] = "yield" /\ Call(2, c)

\* The call the loop body waits for.
innerPending == pc[2] # "idle" /\ call[2].inner

\* The loop body returns, when the call it made has returned.
BodyReturns(more) == ~innerPending /\ ConsumerReturns(1, more)

NextBody ==
    \/ \E c \in IterCalls : Call(1, c)
    \/ \E c \in WriteCalls(FALSE) : Call(2, c)
    \/ \E c \in WriteCalls(TRUE) : CallInBody(c)
    \/ \E p \in Clients : Lock(p)
    \/ \E p \in Clients : RLock(p)
    \/ \E p \in Clients, fail \in BOOLEAN : Work(p, fail)
    \/ \E fail \in BOOLEAN : WorkList(1, fail)
    \/ \E more \in BOOLEAN : BodyReturns(more)
    \/ \E o \in CloseOutcomes : CloseWork(2, o)
    \/ \E p \in Clients, fail \in BOOLEAN : Return(p, fail)
    \/ ErrYieldReturns(1)

SpecBody == InitPuts /\ [][NextBody]_vars

----------------------------------------------------------------------------
\* What the claims speak of

\* key is present in the keyspace s was asked for: a Put of it succeeded
\* and no Delete of it has succeeded since.
present(s, key) == \E e \in hist : e.path = s.path /\ e.key = key

absent(s, key) == ~present(s, key)

\* err holds the whole message of e.
Contains(err, e) ==
    \E i \in 1..Len(err) : i + Len(e) - 1 <= Len(err) /\ SubSeq(err, i, i + Len(e) - 1) = e

\* Everything the read calls return on handle s.
View(d, s) ==
    <<[key \in Keys |-> GetCall(d, s, key)],
      [keys \in HasArgs |-> HasCall(d, s, keys)],
      [start \in Starts |-> ListCall(d, s, start)],
      LenCall(d, s)>>

\* C1: on an open store, in the compressed and in the uncompressed
\* configuration, Get of a key returns exactly the value (the empty one
\* included) of the last successful Put of that key in that keyspace, as
\* long as no later write to the key succeeded.
C1_RoundTrip ==
    ~closed =>
        \A s \in kvs : \A e \in hist :
            e.path = s.path => GetCall(db, s, e.key) = [val |-> e.val, err |-> Nil]

\* A compressed store holds an empty and a non-empty value, and a Get has
\* just returned without error.
C1_Witness ==
    /\ compress /\ ~closed
    /\ last = Returned("Get", Nil)
    /\ \E e1 \in hist, e2 \in hist : e1.val = <<>> /\ e2.val # <<>>

\* C2: on an open store, a Put without replace of a key present in the
\* keyspace returns KeyExists and leaves every row (value and size) as it
\* was; a Put with replace of a present key returns nil, and Get of the key
\* then returns the new value.
C2_Existence ==
    [][(last'.op = "Put" /\ ~closed) =>
          \A s \in kvs, key \in Keys, data \in Values :
              /\ (present(s, key) /\ Put(s, key, data, FALSE))
                    => (last'.err = KeyExists /\ db' = db)
              /\ (present(s, key) /\ Put(s, key, data, TRUE))
                    => (last'.err = Nil
                          /\ GetCall(db', s, key) = [val |-> data, err |-> Nil])
      ]_vars

\* A Put without replace has just been refused for a key that is present.
C2_Witness ==
    /\ last = Returned("Put", KeyExists)
    /\ hist # {}

\* C3 as stated: Get, Delete and the probe each report NotFound for an
\* absent key.
C3_AllReportNotFound ==
    ~closed =>
        \A s \in kvs, key \in Keys :
            absent(s, key) =>
                /\ GetCall(db, s, key).err = KeyNotFound
                /\ DeleteCall(db, s, key).err = KeyNotFound
                /\ HasCall(db, s, <<key>>).err = KeyNotFound

\* C3, amended: on an open store, for a key never written or written and
\* then deleted, Get and Delete report NotFound, and Has reports no error
\* and a result without the key.
C3_NotFound ==
    ~closed =>
        \A s \in kvs, key \in Keys :
            absent(s, key) =>
                /\ GetCall(db, s, key).err = KeyNotFound
                /\ DeleteCall(db, s, key).err = KeyNotFound
                /\ HasCall(db, s, <<key>>) = [val |-> {}, err |-> Nil]

\* A Delete has just removed the last key of the store: the key was written
\* and then deleted.
C3_Witness ==
    /\ ~closed
    /\ last = Returned("Delete", Nil)
    /\ hist = {}

\* C4: a Delete that returns NotFound leaves the rows of every table, and
\* with them what Get, Has, List and Len return on every handle, as they were.
C4_DeleteNotFoundFrame ==
    [][(last'.op = "Delete" /\ last'.err = KeyNotFound) =>
          \A s \in kvs, key \in Keys :
              Delete(s, key) =>
                  /\ db' = db
                  /\ closed' = closed /\ compress' = compress /\ kvs' = kvs
                  /\ \A t \in kvs : View(db', t) = View(db, t)
      ]_vars

\* A Delete has just returned NotFound on a store that holds a key.
C4_Witness ==
    /\ last = Returned("Delete", KeyNotFound)
    /\ hist # {}

\* C5: on an open store List(start) yields, without error, exactly the keys
\* of the keyspace that are >= start, each once and in strictly ascending
\* byte order of the keys themselves; List("") yields every key.
C5_ListOrder ==
    ~closed =>
        \A s \in kvs, start \in Starts :
            LET r == ListCall(db, s, start)
            IN  /\ r.err = Nil
                /\ Range(r.keys) =
                       {e.key : e \in {x \in hist : x.path = s.path /\ Leq(start, x.key)}}
                /\ \A i \in 1..Len(r.keys), j \in 1..Len(r.keys) :
                       i < j => Less(r.keys[i], r.keys[j])

\* A List has just returned on a store with a keyspace of two keys, which a
\* start between them cuts to one.
C5_Witness ==
    /\ last = Returned("List", Nil)
    /\ \E s \in kvs :
          /\ Len(ListCall(db, s, <<>>).keys) = 2
          /\ Len(ListCall(db, s, <<9, 0>>).keys) = 1

\* C6: on an open store, between calls, Len of a keyspace is the number of
\* keys for which Has reports presence.
C6_LenCountsHas ==
    ~closed =>
        \A s \in kvs :
            LenCall(db, s) =
                [val |-> Cardinality({key \in Keys : key \in HasCall(db, s, <<key>>).val}),
                 err |-> Nil]

\* A Len has just returned on a keyspace of two keys.
C6_Witness ==
    /\ last = Returned("Len", Nil)
    /\ \E s \in kvs : LenCall(db, s).val = 2

\* C7: when every caller puts a key of its own into an empty keyspace, all
\* at the same time, every Put returns nil under every interleaving, and a
\* Len asked for after all of them returned returns the number of callers.
C7_ConcurrentPuts ==
    \A p \in Callers : \A i \in 1..Len(rets[p]) :
        /\ rets[p][i].op = "Put" => rets[p][i].err = Nil
        /\ rets[p][i].op = "Len" => rets[p][i] = Result("Len", Nil, NumCallers)

\* Every Put has returned, and a Len after them.
C7_Witness ==
    /\ \A p \in Callers : ReturnedFrom(p, "Put")
    /\ \E p \in Callers : ReturnedFrom(p, "Len")

\* C8: a Put or a Delete through a handle of one keyspace leaves what Get,
\* Has, List and Len return on the handles of every other keyspace as it
\* was, and on an open store a key absent from a keyspace is NotFound for
\* Get there, whatever the other keyspaces hold.
C8_Isolation ==
    /\ [](~closed =>
            \A s \in kvs, key \in Keys :
                absent(s, key) => GetCall(db, s, key) = [val |-> <<>>, err |-> KeyNotFound])
    /\ [][last'.op \in {"Put", "Delete"} =>
             \A s \in kvs, key \in Keys :
                 ((\E data \in Values, replace \in BOOLEAN : Put(s, key, data, replace))
                     \/ Delete(s, key))
                    => /\ closed' = closed /\ compress' = compress /\ kvs' = kvs
                       /\ \A t \in kvs :
                              t.path # s.path => (db' = db \/ View(db', t) = View(db, t))
         ]_vars

\* A Put has just succeeded, and the key it wrote is present in one keyspace
\* and absent from another.
C8_Witness ==
    /\ ~closed
    /\ last = Returned("Put", Nil)
    /\ \E e \in hist : \E t \in kvs : t.path # e.path /\ absent(t, e.key)

\* C9: on an open store Has returns, without error, exactly the requested
\* keys that are present, whatever the order of the arguments and however
\* often one is repeated.
C9_HasSubset ==
    ~closed =>
        \A s \in kvs :
            /\ \A keys \in HasArgs :
                  HasCall(db, s, keys) =
                      [val |-> {key \in Range(keys) : present(s, key)}, err |-> Nil]
            /\ \A k1 \in HasArgs, k2 \in HasArgs :
                  Range(k1) = Range(k2) => HasCall(db, s, k1) = HasCall(db, s, k2)

\* A Has has just returned on a keyspace where one key is present and
\* another absent.
C9_Witness ==
    /\ last = Returned("Has", Nil)
    /\ \E s \in kvs : \E k1 \in Keys, k2 \in Keys : present(s, k1) /\ absent(s, k2)

\* C10: whatever its steps return, Close runs the checkpoint, the vacuum and
\* the release of the pool, in this order; its error holds the error of
\* every step that failed, and is nil only when all three succeeded.
C10_CloseJoinsAll ==
    [][last'.op = "Close" =>
         \A o \in CloseOutcomes :
          Close(o) =>
              /\ last'.steps = <<"wal_checkpoint", "vacuum", "db.Close">>
              /\ \A e \in {o.terr, o.verr, o.cerr} : e # Nil => Contains(last'.err, e)
              /\ last'.err = Nil <=> (o.terr = Nil /\ o.verr = Nil /\ o.cerr = Nil)
      ]_vars

\* A Close has just returned whose three steps all failed.
C10_Witness ==
    /\ last.op = "Close"
    /\ Contains(last.err, <<"checkpoint failed">>)
    /\ Contains(last.err, <<"vacuum failed">>)
    /\ Contains(last.err, <<"close failed">>)

\* C11: no writer (Put, Delete, the table creation of NewKV, Close) is
\* between acquiring and releasing txmu while any other call, on any
\* keyspace, is; two readers (Get, Has, List, Len) may be.
C11_Exclusion ==
    \A p \in Callers, q \in Callers :
        (p # q /\ Inside(p) /\ Inside(q))
            => (call[p].op \notin Writers /\ call[q].op \notin Writers)

\* Two readers are between acquiring and releasing txmu at the same time,
\* one of them a List whose consumer is running.
C11_Witness ==
    \E p \in Callers, q \in Callers :
        /\ p # q
        /\ pc[p] = "yield"
        /\ Inside(q) /\ call[q].op = "Get"

\* C12: a Put through a KV of a sub-store is never between acquiring and
\* releasing its lock while a Get or a Put through a KV of the root store is:
\* the handles of a sub-store synchronise on the lock of the root.
C12_SubSharesLock ==
    \A p \in Callers, q \in Callers :
        (p # q /\ Inside(p) /\ Inside(q))
            => (call[p].op # "Put" /\ call[q].op # "Put")

\* C13: when Close runs its steps, the release of the pool among them, it
\* holds txmu exclusively, and no Get, Has, Put, Delete, Len, table creation
\* or List iteration is between acquiring and releasing txmu.
C13_CloseHoldsLock ==
    [][\A p \in Callers :
          (pc[p] = "tx" /\ call[p].op = "Close" /\ pc'[p] = "commit")
              => /\ txmu.writer = p
                 /\ closed'
                 /\ \A q \in Callers \ {p} : ~Inside(q)
      ]_vars

\* Close has released the pool and not yet given txmu back, while a List
\* waits for txmu.
C13_Witness ==
    \E p \in Callers, q \in Callers :
        /\ closed /\ pc[p] = "commit" /\ call[p].op = "Close" /\ txmu.writer = p
        /\ pc[q] = "rlock" /\ call[q].op = "List"

\* p can take a step of its call.
CanStep(p) ==
    ENABLED (\/ Lock(p)
             \/ RLock(p)
             \/ \E fail \in BOOLEAN : Work(p, fail)
             \/ \E fail \in BOOLEAN : WorkList(p, fail)
             \/ \E o \in CloseOutcomes : CloseWork(p, o))

\* C14: a call whose context is cancelled while it waits for txmu or for a
\* connection of the pool does not stay blocked: it can go on at once, to
\* return the cancellation.
C14_CancelStopsWait ==
    \A p \in Clients :
        (pc[p] \in {"lock", "rlock", "tx"} /\ call[p].op # "Close" /\ call[p].done)
            => CanStep(p)

\* The keys of the keyspace of s that are present.
presentKeys(s) == {e.key : e \in {x \in hist : x.path = s.path}}

\* C15: what a read that holds txmu has got from the database is what the
\* writes that returned success before it took txmu left (hist): the value
\* of the last successful Put for Get, NotFound after a successful Delete,
\* the present keys for Has, List and Len; never an older state.
C15_ReadAfterWrite ==
    \A p \in Clients :
        (pc[p] \in {"yield", "commit"} /\ tx[p].open) =>
            LET c == call[p]
                r == tx[p]
            IN  /\ (c.op = "Get" /\ r.err \in {Nil, KeyNotFound}) =>
                       IF present(c.s, c.key)
                       THEN r.err = Nil
                            /\ \E e \in hist :
                                   e.path = c.s.path /\ e.key = c.key /\ e.val = r.val
                       ELSE r.err = KeyNotFound
                /\ (c.op = "Has" /\ r.err = Nil) =>
                       r.val = {c.key} \cap presentKeys(c.s)
                /\ (c.op = "Len" /\ r.err = Nil) =>
                       r.val = Cardinality(presentKeys(c.s))
                /\ (c.op = "List" /\ r.err = Nil) =>
                       r.val \o r.rows =
                           SortAsc({k \in presentKeys(c.s) : Leq(c.key, k)})

\* A Get holds txmu and has read the value that a Put wrote and compressed,
\* while a second reader is inside as well.
C15_Witness ==
    \E p \in Clients, q \in Clients :
        /\ p # q /\ Inside(q)
        /\ hist # {}
        /\ pc[p] = "commit" /\ call[p].op = "Get"
        /\ tx[p].err = Nil /\ tx[p].val = <<97>>
        /\ compress

\* The row a Put of caller p stores.
rowOf(p) ==
    [tab |-> rootKV.tableName, key |-> encodeKey(<<9>>),
     value |-> encodeBlob(DataOf(p)), vsize |-> Len(DataOf(p))]

\* C16: of the callers that put one key at the same time, the first to
\* return finds the key absent, succeeds and leaves its own row; each later
\* one without replace returns KeyExists and leaves the database as it was,
\* each later one with replace succeeds and leaves its own row; the key
\* never has a row that is not, value and size, the row of one single call.
C16_SameKeyPuts ==
    /\ [](rowsOf(db, rootKV.tableName) \subseteq {rowOf(p) : p \in Callers}
            /\ Cardinality(rowsOf(db, rootKV.tableName)) <= 1)
    /\ [][\A p \in Callers :
             (pc[p] = "commit" /\ pc'[p] = "idle") =>
                 LET err == rets'[p][Len(rets'[p])].err
                 IN  IF rowsOf(db, rootKV.tableName) = {} \/ call[p].replace
                     THEN err = Nil /\ rowsOf(db', rootKV.tableName) = {rowOf(p)}
                     ELSE err = KeyExists /\ db' = db
         ]_vars

\* Every caller has returned from its Put without replace: one with
\* success, another with KeyExists.
C16_Witness ==
    /\ \A p \in Callers : ReturnedFrom(p, "Put")
    /\ \E p \in Callers : rets[p][1].err = Nil
    /\ \E p \in Callers : rets[p][1].err = KeyExists

keysFrom(s, start) == SortAsc({k \in presentKeys(s) : Leq(start, k)})

\* C18: from the moment a List holds txmu until it gives it back, no Put and
\* no Delete takes effect; the first key is yielded from the keys present
\* and not before start at that moment, every further call of the consumer
\* takes the next one of them, and an iteration that is neither stopped nor
\* cancelled ends when it has yielded them all.
C18_ListSnapshot ==
    [][\A p \in Clients :
           (call[p].op = "List" /\ Inside(p)) =>
               /\ db' = db /\ hist' = hist
               /\ (pc[p] = "tx" /\ pc'[p] = "yield") =>
                      tx'[p].val \o tx'[p].rows = keysFrom(call[p].s, call[p].key)
               /\ (pc[p] = "yield" /\ pc'[p] = "yield" /\ tx'[p] # tx[p]) =>
                      /\ tx'[p].val \o tx'[p].rows = tx[p].val \o tx[p].rows
                      /\ Len(tx'[p].val) = Len(tx[p].val) + 1
               /\ (pc[p] = "yield" /\ pc'[p] = "commit"
                     /\ ~tx'[p].stopped /\ ~call[p].done) =>
                      tx'[p].val = keysFrom(call[p].s, call[p].key)
      ]_vars

\* A List has yielded both keys of the keyspace to a consumer that took
\* them all, while a Put waits for txmu.
C18_Witness ==
    \E p \in Clients, q \in Clients :
        /\ pc[p] = "commit" /\ call[p].op = "List" /\ ~call[p].done
        /\ tx[p].err = Nil /\ ~tx[p].stopped /\ Len(tx[p].val) = 2
        /\ pc[q] = "lock" /\ call[q].op = "Put"

\* C19: once the consumer of a List has returned false, List does not call
\* it again, not even with an error.
C19_NoCallAfterStop ==
    \A p \in Clients : pc[p] = "yielderr" => ~tx[p].stopped

\* C20: in every state, each stored row belongs to a key whose last
\* successful Put is on record, and its vsize is the length of the value
\* that Put was given, not of the bytes stored, with and without
\* compression and after a replace.
C20_SizeIsOriginalLength ==
    \A s \in kvs : \A row \in rowsOf(db, s.tableName) :
        \E e \in hist :
            /\ e.path = s.path /\ encodeKey(e.key) = row.key
            /\ row.vsize = Len(e.val)
            /\ row.value = encodeBlob(e.val)

\* With compression, a successful Put has left a row whose stored bytes are
\* longer than the value it was given.
C20_Witness ==
    /\ compress /\ last.op = "Put" /\ last.err = Nil
    /\ \E s \in kvs : \E row \in rowsOf(db, s.tableName) :
           row.vsize = MaxValLen /\ Len(row.value) > row.vsize

\* C21: NewKV creates its table with txmu held exclusively and no other call
\* inside; a request for a keyspace whose table exists leaves the database
\* as it was, and every request leaves the rows of all tables as they were;
\* a table, once there, stays, and comes into being only at the return of a
\* request that found it missing, so that it is created at most once, however
\* many callers ask for it and however often.
C21_CreateOnce ==
    [][/\ db.tables \subseteq db'.tables
       /\ \A p \in Clients :
              (call[p].op = "NewKV" /\ Inside(p)) =>
                  /\ txmu.writer = p
                  /\ \A q \in Clients \ {p} : ~Inside(q)
                  /\ (pc[p] = "commit" /\ pc'[p] = "idle") =>
                         /\ db'.rows = db.rows /\ hist' = hist
                         /\ db'.tables \subseteq db.tables \cup {call[p].s.tableName}
                         /\ (call[p].s.tableName \in db.tables) => db' = db
       /\ (db'.tables # db.tables) =>
              \E p \in Clients :
                  /\ pc[p] = "commit" /\ pc'[p] = "idle" /\ call[p].op = "NewKV"
                  /\ call[p].s.tableName \notin db.tables
      ]_vars

\* A request for a keyspace whose table exists and holds a row has run its
\* statement without error, while a second request waits for txmu.
C21_Witness ==
    \E p \in Clients, q \in Clients :
        /\ pc[p] = "commit" /\ call[p].op = "NewKV" /\ tx[p].err = Nil
        /\ rowsOf(db, call[p].s.tableName) # {}
        /\ pc[q] = "lock" /\ call[q].op = "NewKV"

\* The operation's context in front of an engine error.
Wrapped(err) == err # <<>> /\ Head(err) \in {"get", "stat", "put", "delete", "list"}

\* C22: the error with which the transaction of a Get, Has, Put, Delete,
\* List or Len ends is NotFound, AlreadyExists, a cancellation, or an engine
\* error with the operation's context in front; never an engine error as
\* the engine gave it.
C22_NoRawError ==
    \A p \in Clients :
        (/\ pc[p] = "commit"
         /\ call[p].op \in {"Get", "Has", "Put", "Delete", "List", "Len"}
         /\ tx[p].err # Nil)
            => \/ tx[p].err \in {KeyNotFound, KeyExists, Canceled}
               \/ Wrapped(tx[p].err)

\* C23: no failure of an engine call is dropped: a List whose loop ended
\* with rows still due, though its consumer did not stop it and its context
\* is not cancelled, ends its transaction with an error; and a Delete ends
\* with NotFound only when the key has no row.
C23_NoSwallow ==
    \A p \in Clients :
        (pc[p] = "commit" /\ tx[p].open) =>
            /\ (/\ call[p].op = "List" /\ tx[p].rows # <<>>
                /\ ~tx[p].stopped /\ ~call[p].done)
                   => tx[p].err # Nil
            /\ (call[p].op = "Delete" /\ tx[p].err = KeyNotFound)
                   => queryKey(db, call[p].s.tableName, encodeKey(call[p].key)).rows = {}

\* C24: every key stored is kept under a code of even length that decodeKey
\* turns back into the key; two stored keys are in the same byte order as
\* their codes; and List from any start finds no code that decodeKey
\* rejects, and yields the present keys not before start in the order of the
\* keys.
C24_KeyCodec ==
    LET ks == presentKeys(rootKV)
    IN  /\ {r.key : r \in rowsOf(db, rootKV.tableName)} = {encodeKey(k) : k \in ks}
        /\ \A k \in ks :
               /\ Len(encodeKey(k)) = 2 * Len(k)
               /\ decodeKey(encodeKey(k)) = [ok |-> TRUE, out |-> k]
        /\ \A k1 \in ks, k2 \in ks :
               Less(k1, k2) <=> Less(encodeKey(k1), encodeKey(k2))
        /\ \A start \in KeySpace :
               ListCall(db, rootKV, start) =
                   [keys |-> SortAsc({k \in ks : Leq(start, k)}), err |-> Nil]

\* Keys of which one is the beginning of another, and keys that differ in
\* the first byte, are stored together, and a List has returned.
C24_Witness ==
    /\ {<<9>>, <<9, 160>>, <<160>>, <<160, 9>>} \subseteq presentKeys(rootKV)
    /\ last.op = "List" /\ last.err = Nil

\* C25: the compression setting never changes, and every handle, of the
\* root store and of a sub-store, decodes with the setting the value was
\* encoded with: a Get that found a row never fails to decode it and returns
\* the value that was put, which with compression is not the stored bytes.
C25_CompressFixed ==
    /\ [][compress' = compress]_vars
    /\ [](\A p \in Clients :
              (pc[p] = "commit" /\ call[p].op = "Get" /\ tx[p].open
                 /\ tx[p].err # KeyNotFound /\ Head(tx[p].err \o <<"">>) # "get") =>
                  LET c == call[p]
                      q == queryKey(db, c.s.tableName, encodeKey(c.key))
                  IN  /\ tx[p].err = Nil
                      /\ \E e \in hist :
                             e.path = c.s.path /\ e.key = c.key /\ e.val = tx[p].val
                      /\ compress => \A r \in q.rows : r.value # tx[p].val)

\* With compression, a Get through the handle of the sub-store has read the
\* value that a Put through it stored.
C25_Witness ==
    \E p \in Clients :
        /\ compress /\ pc[p] = "commit" /\ call[p].op = "Get" /\ call[p].s = subKV
        /\ tx[p].open /\ tx[p].err = Nil /\ tx[p].val = <<97>>

\* C26: when everyone who holds txmu releases it in the end, a Put, a Delete
\* or a Close that waits for txmu gets it in the end, whatever reads keep
\* arriving.
C26_WriterGetsLock ==
    \A p \in Clients : (pc[p] = "lock") ~> (txmu.writer = p)

\* A writer waits for txmu behind a List whose consumer is at work, after an
\* earlier write of its own.
C26_Witness ==
    /\ pc[1] = "lock" /\ call[1].op \in Writers
    /\ pc[2] = "yield" /\ 2 \in txmu.readers
    /\ hist # {}

\* C27: List holds txmu shared while the consumer's loop body runs; a Put, a
\* Delete, a table creation or a Close made by the loop body waits for txmu
\* and can never take it, nor can the body return, so the caller is blocked
\* for good; one made by another caller cannot take txmu while the body
\* runs.
C27_BodyWriteBlocks ==
    /\ pc[1] = "yield" => 1 \in txmu.readers
    /\ innerPending =>
           /\ pc[2] = "lock" /\ pc[1] = "yield"
           /\ ~ENABLED (Lock(2) \/ \E more \in BOOLEAN : BodyReturns(more))
    /\ (pc[1] = "yield" /\ pc[2] = "lock") => ~ENABLED Lock(2)
    /\ (pc[1] = "yield" /\ pc[2] # "idle") => ~Inside(2)

\* The loop body of a List over two keys has called Put and waits for it.
C27_Witness ==
    /\ pc[1] = "yield" /\ Cardinality(hist) = 2
    /\ innerPending /\ call[2].op = "Put"

\* C28: once the pool is closed, no step changes a record; a Get, Has, Put,
\* Delete, List, Len or table creation that took txmu after that begins no
\* transaction, ends with the error of the closed pool and the zero value,
\* has no key to yield, and leaves txmu free of itself when it returns; and
\* a further Close is never held up by the closed pool: it takes txmu when
\* nobody is inside, runs its three steps and returns.
C28_AfterClose ==
    /\ [](closed =>
            \A p \in Clients :
                /\ pc[p] # "yield"
                /\ (pc[p] \in {"commit", "yielderr"} /\ call[p].op # "Close") =>
                       /\ ~tx[p].open /\ tx[p].err = ErrDBClosed
                       /\ tx[p].val = zero(call[p].op) /\ tx[p].rows = <<>>
                       /\ tx[p].db = db
                /\ (call[p].op = "Close") =>
                       /\ (pc[p] = "lock" /\ \A q \in Clients : ~Inside(q))
                              => ENABLED Lock(p)
                       /\ pc[p] = "tx" => ENABLED (\E o \in CloseOutcomes : CloseWork(p, o))
                       /\ pc[p] = "commit" => ENABLED Return(p, FALSE))
    /\ [][closed =>
            /\ closed' /\ db' = db /\ kvs' = kvs /\ hist' = hist
            /\ \A p \in Clients :
                   (Inside(p) /\ pc'[p] = "idle") =>
                       (txmu'.writer # p /\ p \notin txmu'.readers)
         ]_vars

\* After a Close, a Put has failed to begin its transaction, while a second
\* Close waits for txmu.
C28_Witness ==
    \E p \in Clients, q \in Clients :
        /\ closed
        /\ pc[p] = "commit" /\ call[p].op = "Put" /\ tx[p].err = ErrDBClosed
        /\ pc[q] = "lock" /\ call[q].op = "Close"

====
